---- MODULE Spec2Model ----
(***************************************************************************)
(* Model of the crypto-news enrichment pipeline of src/ci.py:              *)
(* CryptoNewsProcessor.process_news and its helpers, driven by main().     *)
(*                                                                         *)
(* Text is modelled as a sequence of tokens (words and white space), so    *)
(* that str.strip(), the sentiment mapping and the f-strings are computed  *)
(* and not assumed.  A Python dict is a TLA+ function; a missing key is a  *)
(* key outside its DOMAIN and reading it raises KeyError.                  *)
(* The generation service is free to fail on any call; when it answers a   *)
(* sentiment prompt, it answers with the same text (label) throughout one  *)
(* behaviour, and Init draws that text from SentimentTexts.                *)
(* The storage file is modelled by its kind and, for a YAML document with  *)
(* a predictions list, by the serialized entries: each entry is the        *)
(* sequence of its <<key, value>> pairs in the order yaml.dump writes them.*)
(***************************************************************************)
EXTENDS Integers, Sequences, FiniteSets, TLC

VARIABLES
    tokens,       \* the list main() iterates over (ci.py:249)
    fs,           \* storage: token -> content of news/<token>-USDT/<date>/predictions.yaml
    pc,           \* position of the single thread of control
    idx,          \* main(): index into tokens of the symbol being processed
    data,         \* process_news: the in-memory collection {"predictions": [...]}
    current_id,   \* process_news: the id counter
    queue,        \* process_news: the items of the running for loop still to visit
    exc,          \* the exception in flight, "none" when there is none
    label,        \* the text the generation service gives a sentiment prompt
    summary,      \* process_news: local of the running iteration
    sentiment,    \* process_news: local of the running iteration
    call,         \* observation: the helper call the running iteration made last
    run,          \* observation: the running process_news call
    hist,         \* observation: per token, what earlier process_news calls did
    report        \* what the running main() printed: one line per symbol

vars == <<tokens, fs, pc, idx, data, current_id, queue, exc, label,
          summary, sentiment, call, run, hist, report>>

----------------------------------------------------------------------------
(* Bounds of the model                                                     *)

\* most items one provider response carries
MaxItems == 1
\* most records the storage file holds when one symbol is configured (caps
\* the id counter)
MaxRecords == 3
\* most records all storage files hold together when several symbols are
\* configured; at 0 these behaviours are the driver loop over loads,
\* fetches, failures and saves of collections without records
MaxRecordsMulti == 0

\* response.json().get("data", [])[:10]
CoinGeckoLimit == 10

----------------------------------------------------------------------------
(* Text                                                                    *)

WhiteSpace == {" ", "\n"}

RECURSIVE LStrip(_)
LStrip(s) ==
    IF s # <<>> /\ Head(s) \in WhiteSpace THEN LStrip(Tail(s)) ELSE s

RECURSIVE RStrip(_)
RStrip(s) ==
    IF s # <<>> /\ s[Len(s)] \in WhiteSpace
    THEN RStrip(SubSeq(s, 1, Len(s) - 1))
    ELSE s

\* str.strip()
Strip(s) == RStrip(LStrip(s))

\* whether text s ends with text t
EndsWith(s, t) ==
    /\ Len(t) <= Len(s)
    /\ SubSeq(s, Len(s) - Len(t) + 1, Len(s)) = t

Take(s, n) == SubSeq(s, 1, IF Len(s) < n THEN Len(s) ELSE n)

NoText == <<>>

----------------------------------------------------------------------------
(* Enricher: get_sentiment_and_summary (ci.py:52-85)                       *)

\* What one client.chat.completions.create call does: it raises ("error"),
\* it answers without a usable choices[0].message.content ("malformed"), or
\* it answers with a text ("ok").  "skipped" marks a call that was not made.
\* The texts come with the white space strip() removes.
SummaryText == <<" ", "BTC", " ", "rallies", "\n">>

SentimentTexts ==
    { <<"Very", " ", "Bullish">>,
      <<" ", "Very", " ", "Bearish", "\n">>,
      <<"Bullish", "\n">>,
      <<"Mixed">> }

ChatFailures == { [kind |-> "error", content |-> NoText],
                  [kind |-> "malformed", content |-> NoText] }

SummaryResponses == ChatFailures \cup { [kind |-> "ok", content |-> SummaryText] }

SentimentResponses ==
    ChatFailures \cup { [kind |-> "ok", content |-> t] : t \in SentimentTexts }

ChatSkipped == [kind |-> "skipped", content |-> NoText]

\* a variant that coerces a label outside the closed set to Neutral
SentimentMappingCoerces(s) ==
    IF s = <<"Very", " ", "Bullish">> THEN <<"VeryBullish">>
    ELSE IF s = <<"Very", " ", "Bearish">> THEN <<"VeryBearish">>
    ELSE IF s \in {<<"Bullish">>, <<"Neutral">>, <<"Bearish">>} THEN s
    ELSE <<"Neutral">>

\* sentiment_mapping.get(sentiment, sentiment) (ci.py:76-80)
SentimentMapping(s) ==
    IF s = <<"Very", " ", "Bullish">> THEN <<"VeryBullish">>
    ELSE IF s = <<"Very", " ", "Bearish">> THEN <<"VeryBearish">>
    ELSE s

ErrorSummary == <<"Error", " ", "generating", " ", "summary">>
Neutral == <<"Neutral">>

\* The body of the try block (ci.py:55-82): the pair it returns, or the
\* exception it leaves with.  choices[0].message.content of a malformed
\* answer raises like a failed call does.
EnrichBody(sumResp, sentResp) ==
    IF sumResp.kind # "ok" \/ sentResp.kind # "ok"
    THEN [raised |-> TRUE, summary |-> NoText, sentiment |-> NoText]
    ELSE [raised |-> FALSE,
          summary |-> Strip(sumResp.content),
          sentiment |-> SentimentMapping(Strip(sentResp.content))]

\* a variant that keeps the summary of the first call when the second fails
GetSentimentAndSummaryKeepsSummary(sumResp, sentResp) ==
    LET body == EnrichBody(sumResp, sentResp)
    IN  IF ~body.raised THEN body
        ELSE IF sumResp.kind = "ok"
        THEN [raised |-> FALSE, summary |-> Strip(sumResp.content),
              sentiment |-> Neutral]
        ELSE [raised |-> FALSE, summary |-> ErrorSummary, sentiment |-> Neutral]

\* get_sentiment_and_summary: the body under try/except Exception; every
\* exception gives the fallback pair (ci.py:83-85).
GetSentimentAndSummary(sumResp, sentResp) ==
    LET body == EnrichBody(sumResp, sentResp)
    IN  IF body.raised
        THEN [raised |-> FALSE, summary |-> ErrorSummary, sentiment |-> Neutral]
        ELSE body

\* What the two calls of one get_sentiment_and_summary call do.  The second
\* call is made only when the first one returned a text; when it answers,
\* it answers with the text t.
EnrichEnvs(t) ==
    { [sum |-> a, sent |-> b] :
        a \in SummaryResponses \ {r \in SummaryResponses : r.kind = "ok"},
        b \in {ChatSkipped} }
    \cup
    { [sum |-> a, sent |-> b] :
        a \in {r \in SummaryResponses : r.kind = "ok"},
        b \in {r \in SentimentResponses : r.kind = "ok" => r.content = t} }

----------------------------------------------------------------------------
(* Illustrator: generate_and_save_image (ci.py:87-135)                     *)

Primary == "dall-e-3"
Secondary == "dall-e-2"

\* client.images.generate: it raises ("error"), it answers without
\* data[0].url ("malformed"), or it answers with an image URL ("ok").
GenOutcomes == {"ok", "error", "malformed"}
\* requests.get(image_url, stream=True): it raises, or answers with a status.
DownloadOutcomes == {"raise", "404", "200"}

\* The outcomes of the external calls of one generate_and_save_image call;
\* "skipped" for a call the control flow does not reach.
ImageEnvs ==
    { e \in [models : BOOLEAN, primary : GenOutcomes \cup {"skipped"},
             secondary : GenOutcomes \cup {"skipped"},
             download : DownloadOutcomes \cup {"skipped"},
             write : {"ok", "fail", "skipped"}] :
        /\ (e.primary # "skipped") <=> e.models
        /\ (e.secondary # "skipped") <=> (e.primary = "error")
        /\ (e.download # "skipped") <=> (e.primary = "ok" \/ e.secondary = "ok")
        /\ (e.write # "skipped") <=> (e.download = "200") }

\* The inner try/except (ci.py:98-112): the requests sent to
\* client.images.generate, in order, and how the block is left.
\* a variant without the fallback request
GenerateImageNoFallback(e) ==
    [requests |-> <<Primary>>,
     left     |-> IF e.primary = "error" THEN "raise" ELSE e.primary]

GenerateImage(e) ==
    IF e.primary = "error"
    THEN [requests |-> <<Primary, Secondary>>,
          left     |-> IF e.secondary = "error" THEN "raise" ELSE e.secondary]
    ELSE [requests |-> <<Primary>>, left |-> e.primary]

\* The body of the outer try block (ci.py:90-130).
ImageBody(e, save_path) ==
    IF ~e.models
    THEN [requests |-> <<>>, written |-> FALSE, raised |-> TRUE, ret |-> NoText]
    ELSE LET g == GenerateImage(e)
         IN  IF g.left # "ok"    \* raised by generate, or by response.data[0].url
             THEN [requests |-> g.requests, written |-> FALSE,
                   raised |-> TRUE, ret |-> NoText]
             ELSE IF e.download = "raise"
             THEN [requests |-> g.requests, written |-> FALSE,
                   raised |-> TRUE, ret |-> NoText]
             ELSE IF e.download # "200"
             THEN [requests |-> g.requests, written |-> FALSE,
                   raised |-> FALSE, ret |-> NoText]
             ELSE IF e.write # "ok"
             THEN [requests |-> g.requests, written |-> FALSE,
                   raised |-> TRUE, ret |-> NoText]
             ELSE [requests |-> g.requests, written |-> TRUE,
                   raised |-> FALSE, ret |-> save_path]

\* generate_and_save_image: the body under try/except Exception, which
\* returns "" for every exception (ci.py:132-135).
GenerateAndSaveImage(e, save_path) ==
    LET body == ImageBody(e, save_path)
    IN  IF body.raised THEN [body EXCEPT !.raised = FALSE, !.ret = NoText]
        ELSE body

----------------------------------------------------------------------------
(* NewsFetcher: get_coingecko_news and get_cryptopanic_news (ci.py:29-50)  *)

ItemA ==
    [title       |-> <<"BTC", " ", "hits", " ", "new", " ", "high">>,
     description |-> <<"Price", " ", "surged">>,
     url         |-> <<"https://a.example/1">>,
     news_site   |-> <<"CoinDesk">>]

\* an item of provider A without the optional description
ItemANoDescription ==
    [title     |-> <<"ETF", " ", "delayed">>,
     url       |-> <<"https://a.example/2">>,
     news_site |-> <<"CoinDesk">>]

ItemB ==
    [title  |-> <<"Miners", " ", "sell">>,
     domain |-> <<"cryptopanic.com">>,
     url    |-> <<"https://b.example/1">>,
     kind   |-> "news"]

ItemBMedia == [ItemB EXCEPT !.kind = "media"]

\* items of provider B without the kind or the domain field
ItemBNoKind ==
    [title  |-> <<"Miners", " ", "sell">>,
     domain |-> <<"cryptopanic.com">>,
     url    |-> <<"https://b.example/1">>]

ItemBNoDomain ==
    [title |-> <<"Miners", " ", "sell">>,
     url   |-> <<"https://b.example/1">>,
     kind  |-> "news"]

RECURSIVE SeqsUpTo(_, _)
SeqsUpTo(S, n) ==
    IF n = 0 THEN {<<>>}
    ELSE LET shorter == SeqsUpTo(S, n - 1)
         IN  shorter \cup {Append(q, x) : q \in shorter, x \in S}

\* What requests.get does for a provider: it raises (transport failure), or
\* it returns a response with a status code and a body; the body is not JSON
\* ("invalid"), JSON without the list key ("nokey"), or JSON with the list.
Responses(Items, n) ==
    { [kind |-> "raise", status |-> 0, body |-> "none", list |-> <<>>],
      [kind |-> "http", status |-> 500, body |-> "none", list |-> <<>>],
      [kind |-> "http", status |-> 200, body |-> "invalid", list |-> <<>>],
      [kind |-> "http", status |-> 200, body |-> "nokey", list |-> <<>>] }
    \cup
    { [kind |-> "http", status |-> 200, body |-> "list", list |-> l] :
        l \in SeqsUpTo(Items, n) }

Raise == [raised |-> TRUE, items |-> <<>>]
Return(items) == [raised |-> FALSE, items |-> items]

\* get_coingecko_news (ci.py:29-36); no try/except.
GetCoingeckoNews(resp) ==
    IF resp.kind = "raise" THEN Raise                      \* requests.get
    ELSE IF resp.status = 200
    THEN IF resp.body = "invalid" THEN Raise               \* response.json()
         ELSE IF resp.body = "nokey" THEN Return(<<>>)     \* .get("data", [])
         ELSE Return(Take(resp.list, CoinGeckoLimit))
    ELSE Return(<<>>)

RECURSIVE KindFilter(_)
KindFilter(l) ==
    IF l = <<>> THEN <<>>
    ELSE IF Head(l).kind = "news" THEN <<Head(l)>> \o KindFilter(Tail(l))
    ELSE KindFilter(Tail(l))

\* get_cryptopanic_news (ci.py:38-50); no try/except.
GetCryptopanicNews(resp) ==
    IF resp.kind = "raise" THEN Raise                      \* requests.get
    ELSE IF resp.status = 200
    THEN IF resp.body = "invalid" THEN Raise               \* response.json()
         ELSE IF resp.body = "nokey" THEN Return(<<>>)     \* .get("results", [])
         ELSE IF \E i \in DOMAIN resp.list : "kind" \notin DOMAIN resp.list[i]
         THEN Raise                                        \* news["kind"]
         ELSE Return(KindFilter(resp.list))
    ELSE Return(<<>>)

----------------------------------------------------------------------------
(* RecordStore: the YAML file of one (token, date) key (ci.py:163-176,     *)
(* 240-242)                                                                *)

\* datetime.now().strftime("%m%d%Y"); the model covers the runs of one day
CurrentDate == "11012026"

FieldOrder ==
    <<"id", "title", "preview", "fullContent", "image", "sourcelink", "sentiment">>

Absent == [kind |-> "absent", predictions |-> <<>>]
\* files this program did not write: an empty file, a file that is not
\* YAML, and a YAML mapping without a predictions key
EmptyFile == [kind |-> "empty", predictions |-> <<>>]
InvalidFile == [kind |-> "invalid", predictions |-> <<>>]
NoKeyFile == [kind |-> "nokey", predictions |-> <<>>]

\* yaml.dump(data, f, sort_keys=False): every entry is written as its
\* key/value pairs in the order the entry was authored.
DumpEntry(entry) ==
    [i \in 1..Len(FieldOrder) |-> <<FieldOrder[i], entry[FieldOrder[i]]>>]

YamlDump(d) ==
    [kind |-> "doc",
     predictions |-> [i \in 1..Len(d.predictions) |-> DumpEntry(d.predictions[i])]]

LoadEntry(pairs) ==
    [k \in {pairs[i][1] : i \in DOMAIN pairs} |->
        LET i == CHOOSE j \in DOMAIN pairs : pairs[j][1] = k IN pairs[i][2]]

PyNone == [py |-> "None"]

\* yaml.safe_load(f)
SafeLoad(file) ==
    CASE file.kind = "invalid" -> [raised |-> TRUE, value |-> PyNone]
      [] file.kind = "empty"   -> [raised |-> FALSE, value |-> PyNone]
      [] file.kind = "nokey"   -> [raised |-> FALSE,
                                   value |-> [note |-> <<"scratch">>]]
      [] file.kind = "doc"     ->
            [raised |-> FALSE,
             value |-> [predictions |->
                 [i \in 1..Len(file.predictions) |-> LoadEntry(file.predictions[i])]]]

EmptyCollection == [predictions |-> <<>>]

MaxOf(S, default) ==
    IF S = {} THEN default ELSE CHOOSE m \in S : \A x \in S : x <= m

Ids(d) == {d.predictions[i].id : i \in DOMAIN d.predictions}

LoadRaise == [raised |-> TRUE, data |-> EmptyCollection, current_id |-> 0]

\* a variant that restarts the id counter whatever the file holds
LoadCollectionRestarts(file) ==
    IF file.kind # "absent"
    THEN LET l == SafeLoad(file)
         IN  IF l.raised THEN LoadRaise
             ELSE LET d == IF l.value = PyNone THEN EmptyCollection ELSE l.value
                  IN  IF "predictions" \notin DOMAIN d THEN LoadRaise
                      ELSE [raised |-> FALSE, data |-> d, current_id |-> 0]
    ELSE [raised |-> FALSE, data |-> EmptyCollection, current_id |-> 0]

\* a variant that starts every call from an empty collection
LoadCollectionForgets(file) ==
    IF file.kind # "absent"
    THEN LET l == SafeLoad(file)
         IN  IF l.raised THEN LoadRaise
             ELSE LET d == IF l.value = PyNone THEN EmptyCollection ELSE l.value
                  IN  IF "predictions" \notin DOMAIN d THEN LoadRaise
                      ELSE [raised |-> FALSE, data |-> EmptyCollection,
                            current_id |-> MaxOf(Ids(d), 0)]
    ELSE [raised |-> FALSE, data |-> EmptyCollection, current_id |-> 0]

\* "Initialize or load existing YAML" (ci.py:169-176)
LoadCollection(file) ==
    IF file.kind # "absent"                                \* os.path.exists
    THEN LET l == SafeLoad(file)
         IN  IF l.raised THEN LoadRaise                    \* yaml.YAMLError
             ELSE LET d == IF l.value = PyNone             \* ... or {...}
                           THEN EmptyCollection ELSE l.value
                  IN  IF "predictions" \notin DOMAIN d
                      THEN LoadRaise                       \* KeyError
                      ELSE [raised |-> FALSE, data |-> d,
                            current_id |-> MaxOf(Ids(d), 0)]
    ELSE [raised |-> FALSE, data |-> EmptyCollection, current_id |-> 0]

----------------------------------------------------------------------------
(* The entry process_news builds for one item (ci.py:197-205, 228-236)     *)

\* f"news/{token}-USDT/{current_date}/{current_id}/chart.png"
ImagePath(tok, id) ==
    <<"news/", tok, "-USDT/", CurrentDate, "/", ToString(id), "/", "chart.png">>

Title(source, s) == source \o <<" ", "-", " ">> \o s

\* the keys of the item the loop body reads before it calls the enricher
\* (ci.py:188-190, 219-221) and when it builds the entry (ci.py:197-205,
\* 228-236); reading a missing key raises KeyError
KeysEnrich(p) == IF p = "A" THEN {"title", "description"} ELSE {"title"}
KeysEntry(p) ==
    IF p = "A" THEN {"news_site", "description", "url"} ELSE {"domain", "title", "url"}

NewsEntry(p, news, tok, id, sum, sent) ==
    [id          |-> id,
     title       |-> Title(IF p = "A" THEN news.news_site ELSE news.domain, sent),
     preview     |-> sum,
     fullContent |-> IF p = "A" THEN news.description ELSE news.title,
     image       |-> ImagePath(tok, id),
     sourcelink  |-> news.url,
     sentiment   |-> sent]

----------------------------------------------------------------------------
(* State                                                                   *)

TokenNames == {"BTC", "ETH"}

\* ci.py:249 lists BTC alone; the comment of ci.py:248 names BTC and ETH.
\* The driver loop is modelled for both lists.
TokenLists == { <<"BTC">>, <<"BTC", "ETH">> }

\* what a file holds before the first run: nothing, or a file the program
\* did not write
InitialFiles == {Absent, EmptyFile, InvalidFile, NoKeyFile}

NoCall == [fn |-> "none"]
NoRun == [token |-> "none", start |-> Absent, startId |-> 0,
          assigned |-> <<>>, fromA |-> 0, writes |-> 0]
NoHist == [one |-> FALSE, raised |-> FALSE, first |-> 0]

token == tokens[idx]

Providers == {"A", "B"}
LoopPc(p) == IF p = "A" THEN "loopA" ELSE "loopB"
ImagePc(p) == IF p = "A" THEN "imageA" ELSE "imageB"
EntryPc(p) == IF p = "A" THEN "entryA" ELSE "entryB"

\* records held by the storage files of the other tokens
RECURSIVE Stored(_)
Stored(T) ==
    IF T = {} THEN 0
    ELSE LET t == CHOOSE x \in T : TRUE
         IN  Len(fs[t].predictions) + Stored(T \ {t})

\* how many more records the bound on the model leaves room for
Room ==
    (IF Len(tokens) = 1 THEN MaxRecords ELSE MaxRecordsMulti)
        - Len(data.predictions) - Stored(TokenNames \ {token})

Min(a, b) == IF a < b THEN a ELSE b

Init ==
    /\ tokens \in TokenLists
    /\ fs \in [TokenNames -> InitialFiles]
    /\ \A t \in TokenNames \ {tokens[1]} : fs[t] = Absent
    /\ pc = "idle"
    /\ idx = 1
    /\ data = EmptyCollection
    /\ current_id = 0
    /\ queue = <<>>
    /\ exc = "none"
    /\ label \in SentimentTexts
    /\ summary = NoText
    /\ sentiment = NoText
    /\ call = NoCall
    /\ run = NoRun
    /\ hist = [t \in TokenNames |-> NoHist]
    /\ report = <<>>

----------------------------------------------------------------------------
(* main (ci.py:244-254)                                                    *)

\* the process starts: main() enters its for loop
MainStart ==
    /\ pc = "idle"
    /\ pc' = "main"
    /\ idx' = 1
    /\ report' = <<>>
    /\ UNCHANGED <<tokens, label, fs, data, current_id, queue, exc,
                   summary, sentiment, call, run, hist>>

\* the for loop is exhausted: main() returns
MainEnd ==
    /\ pc = "main"
    /\ idx > Len(tokens)
    /\ pc' = "idle"
    /\ UNCHANGED <<tokens, label, fs, idx, data, current_id, queue, exc,
                   summary, sentiment, call, run, hist, report>>

\* what the finished call leaves in the observation of its token
Finished(raisedNow) ==
    [hist EXCEPT ![run.token] =
        [one    |-> @.one \/ (run.assigned # <<>> /\ Head(run.assigned) = 1),
         raised |-> raisedNow,
         first  |-> IF raisedNow /\ run.assigned # <<>>
                    THEN Head(run.assigned) ELSE 0]]

\* process_news returned: print "Successfully processed ..." (ci.py:252)
MainSuccess ==
    /\ pc = "returned"
    /\ report' = Append(report, [token |-> token, ok |-> TRUE])
    /\ hist' = Finished(FALSE)
    /\ idx' = idx + 1
    /\ pc' = "main"
    /\ data' = EmptyCollection /\ current_id' = 0 /\ queue' = <<>>
    /\ run' = NoRun
    /\ UNCHANGED <<tokens, label, fs, exc, summary, sentiment, call>>

\* a variant without the try/except: the exception ends the process
MainExceptUncaught ==
    /\ pc = "except"
    /\ hist' = Finished(TRUE)
    /\ exc' = "none"
    /\ pc' = "idle"
    /\ data' = EmptyCollection /\ current_id' = 0 /\ queue' = <<>>
    /\ run' = NoRun
    /\ summary' = NoText /\ sentiment' = NoText /\ call' = NoCall
    /\ UNCHANGED <<tokens, label, fs, idx, report>>

\* process_news raised: except Exception prints the error (ci.py:253-254)
\* and the loop goes on
MainExcept ==
    /\ pc = "except"
    /\ report' = Append(report, [token |-> token, ok |-> FALSE])
    /\ hist' = Finished(TRUE)
    /\ exc' = "none"
    /\ idx' = idx + 1
    /\ pc' = "main"
    /\ data' = EmptyCollection /\ current_id' = 0 /\ queue' = <<>>
    /\ run' = NoRun
    /\ summary' = NoText /\ sentiment' = NoText /\ call' = NoCall
    /\ UNCHANGED <<tokens, label, fs>>

----------------------------------------------------------------------------
(* process_news (ci.py:160-242)                                            *)

\* the call and its first statements: the paths, then load or initialize
\* the collection (ci.py:163-176)
ProcessNewsLoad ==
    /\ pc = "main"
    /\ idx <= Len(tokens)
    /\ LET l == LoadCollection(fs[token])
       IN  /\ run' = [token |-> token, start |-> fs[token],
                      startId |-> l.current_id, assigned |-> <<>>,
                      fromA |-> 0, writes |-> 0]
           /\ IF l.raised
              THEN /\ pc' = "except" /\ exc' = "load"
                   /\ UNCHANGED <<data, current_id>>
              ELSE /\ pc' = "fetchA" /\ exc' = "none"
                   /\ data' = l.data
                   /\ current_id' = l.current_id
    /\ UNCHANGED <<tokens, label, fs, idx, queue, summary, sentiment, call, hist, report>>

\* coingecko_news = self.get_coingecko_news(token) (ci.py:179)
FetchCoingecko ==
    /\ pc = "fetchA"
    /\ \E resp \in Responses({ItemA, ItemANoDescription}, Min(MaxItems, Room)) :
          LET r == GetCoingeckoNews(resp)
          IN  IF r.raised
              THEN pc' = "except" /\ exc' = "fetchA" /\ UNCHANGED queue
              ELSE pc' = "loopA" /\ queue' = r.items /\ UNCHANGED exc
    /\ UNCHANGED <<tokens, label, fs, idx, data, current_id,
                   summary, sentiment, call, run, hist, report>>

\* cryptopanic_news = self.get_cryptopanic_news(token) (ci.py:210)
FetchCryptopanic ==
    /\ pc = "fetchB"
    /\ \E resp \in Responses({ItemB, ItemBMedia, ItemBNoKind, ItemBNoDomain},
                             Min(MaxItems, Room)) :
          LET r == GetCryptopanicNews(resp)
          IN  IF r.raised
              THEN pc' = "except" /\ exc' = "fetchB" /\ UNCHANGED queue
              ELSE pc' = "loopB" /\ queue' = r.items /\ UNCHANGED exc
    /\ UNCHANGED <<tokens, label, fs, idx, data, current_id,
                   summary, sentiment, call, run, hist, report>>

\* the for loop has no item left (ci.py:180, 211)
LoopEnd(p) ==
    /\ pc = LoopPc(p)
    /\ queue = <<>>
    /\ pc' = IF p = "A" THEN "fetchB" ELSE "save"
    /\ UNCHANGED <<tokens, label, fs, idx, data, current_id, queue, exc,
                   summary, sentiment, call, run, hist, report>>

\* a variant that does not advance the counter
NextIdStuck(id) == id

\* current_id += 1 (ci.py:181, 212)
NextId(id) == id + 1

\* one iteration, first part: the next id, the image directory and the
\* enricher call (ci.py:181-190, 212-221)
ItemEnrich(p) ==
    /\ pc = LoopPc(p)
    /\ queue # <<>>
    /\ current_id' = NextId(current_id)
    /\ run' = [run EXCEPT !.assigned = Append(@, NextId(current_id))]
    /\ \E mkdir \in BOOLEAN, env \in EnrichEnvs(label) :
          IF ~mkdir
          THEN /\ pc' = "except" /\ exc' = "mkdir"         \* os.makedirs
               /\ UNCHANGED <<summary, sentiment, call>>
          ELSE IF ~(KeysEnrich(p) \subseteq DOMAIN Head(queue))
          THEN /\ pc' = "except" /\ exc' = "item"          \* KeyError
               /\ UNCHANGED <<summary, sentiment, call>>
          ELSE LET r == GetSentimentAndSummary(env.sum, env.sent)
               IN  /\ call' = [fn |-> "enrich", env |-> env, ret |-> r]
                   /\ IF r.raised
                      THEN /\ pc' = "except" /\ exc' = "enrich"
                           /\ UNCHANGED <<summary, sentiment>>
                      ELSE /\ pc' = ImagePc(p) /\ UNCHANGED exc
                           /\ summary' = r.summary
                           /\ sentiment' = r.sentiment
    /\ UNCHANGED <<tokens, label, fs, idx, data, queue, hist, report>>

\* one iteration, second part: the illustrator call, whose value is not
\* used (ci.py:193-194, 224-225)
ItemImage(p) ==
    /\ pc = ImagePc(p)
    /\ \E env \in ImageEnvs :
          LET r == GenerateAndSaveImage(env, ImagePath(token, current_id))
          IN  /\ call' = [fn |-> "image", env |-> env, ret |-> r]
              /\ IF r.raised
                 THEN pc' = "except" /\ exc' = "image"
                 ELSE pc' = EntryPc(p) /\ UNCHANGED exc
    /\ UNCHANGED <<tokens, label, fs, idx, data, current_id, queue,
                   summary, sentiment, run, hist, report>>

\* a variant of the last part that also saves the file in every iteration
ItemEntrySaves(p) ==
    /\ pc = EntryPc(p)
    /\ IF ~(KeysEntry(p) \subseteq DOMAIN Head(queue))
       THEN /\ pc' = "except" /\ exc' = "item"
            /\ UNCHANGED <<data, queue, run, fs>>
       ELSE /\ data' = [data EXCEPT !.predictions =
                 Append(@, NewsEntry(p, Head(queue), token, current_id,
                                     summary, sentiment))]
            /\ fs' = [fs EXCEPT ![token] = YamlDump(data')]
            /\ queue' = Tail(queue)
            /\ run' = [run EXCEPT !.fromA = IF p = "A" THEN @ + 1 ELSE @,
                                  !.writes = @ + 1]
            /\ pc' = LoopPc(p)
            /\ UNCHANGED exc
    /\ summary' = NoText /\ sentiment' = NoText /\ call' = NoCall
    /\ UNCHANGED <<tokens, label, idx, current_id, hist, report>>

\* one iteration, last part: build the entry and append it (ci.py:197-207,
\* 228-238)
ItemEntry(p) ==
    /\ pc = EntryPc(p)
    /\ IF ~(KeysEntry(p) \subseteq DOMAIN Head(queue))
       THEN /\ pc' = "except" /\ exc' = "item"             \* KeyError
            /\ UNCHANGED <<data, queue, run>>
       ELSE /\ data' = [data EXCEPT !.predictions =
                 Append(@, NewsEntry(p, Head(queue), token, current_id,
                                     summary, sentiment))]
            /\ queue' = Tail(queue)
            /\ run' = [run EXCEPT !.fromA = IF p = "A" THEN @ + 1 ELSE @]
            /\ pc' = LoopPc(p)
            /\ UNCHANGED exc
    /\ summary' = NoText /\ sentiment' = NoText /\ call' = NoCall
    /\ UNCHANGED <<tokens, label, fs, idx, current_id, hist, report>>

\* "Save updated YAML file" (ci.py:240-242)
SaveYaml ==
    /\ pc = "save"
    /\ fs' = [fs EXCEPT ![token] = YamlDump(data)]
    /\ run' = [run EXCEPT !.writes = @ + 1]
    /\ pc' = "returned"
    /\ UNCHANGED <<tokens, label, idx, data, current_id, queue, exc,
                   summary, sentiment, call, hist, report>>

Next ==
    \/ MainStart
    \/ MainEnd
    \/ MainSuccess
    \/ MainExcept
    \/ ProcessNewsLoad
    \/ FetchCoingecko
    \/ FetchCryptopanic
    \/ \E p \in Providers : LoopEnd(p)
    \/ \E p \in Providers : ItemEnrich(p)
    \/ \E p \in Providers : ItemImage(p)
    \/ \E p \in Providers : ItemEntry(p)
    \/ SaveYaml

Spec == Init /\ [][Next]_vars

----------------------------------------------------------------------------
(* Properties                                                              *)

InCall == pc \notin {"idle", "main"}

\* the value the serialized entry holds under key k
Field(pairs, k) ==
    LET i == CHOOSE j \in DOMAIN pairs : pairs[j][1] = k IN pairs[i][2]

\* the ids a storage file holds, in sequence order
FileIds(file) ==
    [i \in 1..Len(file.predictions) |-> Field(file.predictions[i], "id")]

StrictlyIncreasing(ids) ==
    \A i, j \in DOMAIN ids : i < j => ids[i] < ids[j]

SeqMax(ids) == MaxOf({ids[i] : i \in DOMAIN ids}, 0)

MemoryIds == [i \in 1..Len(data.predictions) |-> data.predictions[i].id]

IsPrefix(a, b) == Len(a) <= Len(b) /\ SubSeq(b, 1, Len(a)) = a

\* C1: in every storage file, and in the collection in memory, the ids are
\* pairwise distinct and strictly increasing in sequence order; an id given
\* to a new record is the maximum id of the collection at that moment plus
\* one (1 for an empty collection), and that is the id the appended record
\* carries.
C1_IdsIncrease ==
    /\ \A t \in TokenNames : StrictlyIncreasing(FileIds(fs[t]))
    /\ StrictlyIncreasing(MemoryIds)
    /\ pc \in {"imageA", "imageB", "entryA", "entryB"} =>
          /\ current_id = SeqMax(MemoryIds) + 1
          /\ run.assigned[Len(run.assigned)] = current_id
    /\ pc \in {"loopA", "loopB", "fetchB", "save", "returned"} =>
          /\ current_id = SeqMax(MemoryIds)
          /\ \A k \in DOMAIN run.assigned :
                data.predictions[Len(data.predictions) - Len(run.assigned) + k].id
                    = run.assigned[k]

\* a later run appended to a file that already held records
C1_Witness ==
    /\ pc = "returned"
    /\ run.start.predictions # <<>>
    /\ run.assigned # <<>>
    /\ Len(fs[token].predictions) >= 3

\* C2 as stated: a run that starts while the file exists assigns the
\* previous maximum id + 1 first, and no run assigns id 1 again (an earlier
\* run assigned it) while the file exists.
C2_Original ==
    (InCall /\ run.start.kind # "absent" /\ run.assigned # <<>>) =>
        /\ Head(run.assigned) = SeqMax(FileIds(run.start)) + 1
        /\ hist[run.token].one => \A k \in DOMAIN run.assigned : run.assigned[k] # 1

\* C2 as amended: a run that starts while the file exists assigns the
\* previous maximum id + 1 first, and no run assigns id 1 while the file
\* holds a record.
C2_ContinuesFromMax ==
    (InCall /\ run.start.kind # "absent" /\ run.assigned # <<>>) =>
        /\ Head(run.assigned) = SeqMax(FileIds(run.start)) + 1
        /\ run.start.predictions # <<>> =>
              \A k \in DOMAIN run.assigned : run.assigned[k] # 1

\* a run on a file that holds records assigns an id
C2_Witness ==
    /\ InCall
    /\ run.start.predictions # <<>>
    /\ run.assigned # <<>>
    /\ hist[run.token].one

\* C3: loading gives an empty collection and no error when the file is
\* absent, empty or unreadable (content without a predictions sequence
\* included), and the run goes on with next id 1.
C3_LoadNeverFails ==
    (InCall /\ run.start.kind \in {"absent", "empty", "invalid", "nokey"}) =>
        /\ exc # "load"
        /\ run.startId = 0
        /\ pc = "fetchA" => data = EmptyCollection /\ current_id = 0

\* C4: a provider fetch does not raise to process_news, whatever the
\* response: no run is left with an exception of get_coingecko_news or
\* get_cryptopanic_news.
C4_FetchNeverRaises == exc \notin {"fetchA", "fetchB"}

EnrichFailed(env) == env.sum.kind # "ok" \/ env.sent.kind # "ok"

\* C5: when either generation-service call of get_sentiment_and_summary
\* fails, the call returns ("Error generating summary", "Neutral") and does
\* not raise, the summary of a successful first call is not returned, and
\* the iteration goes on with these values.
C5_EnrichFallback ==
    /\ exc # "enrich"
    /\ call.fn = "enrich" =>
          /\ ~call.ret.raised
          /\ pc \in {"imageA", "imageB"}
          /\ summary = call.ret.summary /\ sentiment = call.ret.sentiment
          /\ EnrichFailed(call.env) =>
                /\ call.ret.summary = <<"Error", " ", "generating", " ", "summary">>
                /\ call.ret.sentiment = <<"Neutral">>

\* the first call answered and the second one failed
C5_Witness ==
    /\ call.fn = "enrich"
    /\ call.env.sum.kind = "ok"
    /\ call.env.sent.kind = "error"
    /\ pc = "imageA"

Count(q, x) == Cardinality({i \in DOMAIN q : q[i] = x})

\* C6: in generate_and_save_image the secondary model is requested exactly
\* once when the primary request fails and never otherwise; when both
\* fail, or the download or the write fails, the call returns "" and does
\* not raise; it returns save_path only after the image was written.
C6_ImageFallback ==
    /\ exc # "image"
    /\ call.fn = "image" =>
          LET e == call.env
              r == call.ret
          IN  /\ ~r.raised
              /\ e.primary = "error" =>
                    Count(r.requests, "dall-e-2") = 1 /\ r.requests[1] = "dall-e-3"
              /\ e.primary # "error" => Count(r.requests, "dall-e-2") = 0
              /\ (e.primary = "error" /\ e.secondary = "error") => r.ret = <<>>
              /\ (e.download \in {"raise", "404"} \/ e.write = "fail") => r.ret = <<>>
              /\ r.ret # <<>> => r.written /\ r.ret = ImagePath(token, current_id)
              /\ r.written => e.download = "200" /\ e.write = "ok"

\* the primary request failed and the image came from the secondary model
C6_Witness ==
    /\ call.fn = "image"
    /\ call.env.primary = "error"
    /\ call.env.secondary = "ok"
    /\ call.ret.written

\* the label C7 expects for the text the service answered
Canonical(text) ==
    LET l == Strip(text)
    IN  CASE l = <<"Very", " ", "Bullish">> -> <<"VeryBullish">>
          [] l = <<"Very", " ", "Bearish">> -> <<"VeryBearish">>
          [] OTHER -> l

StoredEntries ==
    {data.predictions[i] : i \in DOMAIN data.predictions}
    \cup UNION { {LoadEntry(fs[t].predictions[i]) : i \in DOMAIN fs[t].predictions} :
                 t \in TokenNames }

\* C7: "Very Bullish" gives "VeryBullish", "Very Bearish" gives
\* "VeryBearish", every other label, recognized or not, is returned
\* unchanged; the stored sentiment field and the suffix of the stored title
\* are this value.
C7_Canonicalization ==
    /\ (call.fn = "enrich" /\ ~EnrichFailed(call.env)) =>
          call.ret.sentiment = Canonical(call.env.sent.content)
    /\ \A e \in StoredEntries :
          /\ EndsWith(e.title, <<" ", "-", " ">> \o e.sentiment)
          /\ \/ e.sentiment = Canonical(label)
             \/ e.sentiment = <<"Neutral">> /\ e.preview = ErrorSummary

\* a label outside the closed set is stored as it came
C7_Witness ==
    /\ label = <<"Mixed">>
    /\ \E i \in DOMAIN fs["BTC"].predictions :
          /\ Field(fs["BTC"].predictions[i], "sentiment") = <<"Mixed">>
          /\ EndsWith(Field(fs["BTC"].predictions[i], "title"), <<"-", " ", "Mixed">>)

\* C8: main reports one line per symbol, in the order of the list; a symbol
\* whose process_news raised is reported as an error and the symbols after
\* it are still processed: main ends only when every symbol was reported.
C8_DriverContinues ==
    /\ Len(report) <= Len(tokens)
    /\ \A i \in DOMAIN report : report[i].token = tokens[i]
    /\ pc = "main" => Len(report) = idx - 1
    /\ pc \in {"idle", "main"} =>
          \A i \in DOMAIN report : report[i].ok = ~hist[tokens[i]].raised
    /\ pc = "idle" =>
          \/ Len(report) = Len(tokens)
          \/ report = <<>> /\ \A t \in TokenNames : hist[t] = NoHist

\* the first symbol failed and the second was processed
C8_Witness ==
    /\ pc = "idle"
    /\ Len(tokens) = 2
    /\ Len(report) = 2
    /\ ~report[1].ok
    /\ report[2].ok

\* C9: a process_news call writes the storage file once, after the last
\* item of both providers was appended; before that, and in a call that
\* raises, the file is what it was when the call started, and the run
\* after a call that raised starts numbering where that call did.
C9_SingleWrite ==
    InCall =>
        /\ run.writes = (IF pc = "returned" THEN 1 ELSE 0)
        /\ pc # "returned" => fs[run.token] = run.start
        /\ pc = "returned" =>
              /\ queue = <<>>
              /\ fs[run.token].kind = "doc"
              /\ Len(fs[run.token].predictions)
                    = Len(run.start.predictions) + Len(run.assigned)
              /\ FileIds(fs[run.token]) = MemoryIds
        /\ (hist[run.token].raised /\ hist[run.token].first # 0
                /\ run.assigned # <<>>) =>
              Head(run.assigned) = hist[run.token].first

\* a call raised after it assigned an id, and the next call assigns it again
C9_Witness ==
    /\ InCall
    /\ hist[run.token].raised
    /\ hist[run.token].first # 0
    /\ run.assigned # <<>>
    /\ Head(run.assigned) = hist[run.token].first

FromProvider(pairs, p) ==
    Field(pairs, "sourcelink") = (IF p = "A" THEN ItemA.url ELSE ItemB.url)

\* a step that changes a storage file is the save of a run; the file
\* it writes holds the records of the file before as a prefix, unchanged
\* and in order, then the run's records of provider A, then those of
\* provider B.
C10_Step ==
    \A t \in TokenNames :
        fs'[t] # fs[t] =>
            LET old == fs[t].predictions
                new == fs'[t].predictions
            IN  /\ pc = "save" /\ t = token
                /\ IsPrefix(old, new)
                /\ Len(new) = Len(old) + Len(run.assigned)
                /\ \A k \in 1..Len(run.assigned) :
                      FromProvider(new[Len(old) + k],
                                   IF k <= run.fromA THEN "A" ELSE "B")

====
